---- MODULE Spec2Model ----
(***************************************************************************)
(* Model of the Fireworks inference adapter                                *)
(* (llama_stack/providers/remote/inference/fireworks/fireworks.py).        *)
(*                                                                         *)
(* Python values are represented as follows:                               *)
(*   - Optional[T]: the empty sequence <<>> is None, <<v>> is the value v; *)
(*   - str that the adapter inspects (the prompt): a sequence of           *)
(*     one-character strings, so startswith and slicing are computed;      *)
(*   - dict: a function whose domain is the set of keys;                   *)
(*   - a call that returns or raises: a record [ok |-> TRUE, ...] or       *)
(*     [ok |-> FALSE, error |-> e].                                        *)
(***************************************************************************)
EXTENDS Integers, Sequences, FiniteSets, TLC

VARIABLES
    config_api_key,   \* self.config.api_key (static, read-only after __init__)
    provider_data,    \* what get_request_provider_data() returns for the call
    request,          \* the CompletionRequest / ChatCompletionRequest of the call
    pc,               \* where the call's coroutine / generator stands
    params,           \* the dict _get_params returned
    calls,            \* the provider calls issued so far
    stream_state,     \* the provider stream: "none", "open", "ended", "failed"
    emitted,          \* the chunks the provider stream has produced so far
    handed,           \* the raw chunks handed to the stream normalizer
    events,           \* the normalized events the caller has received
    outcome,          \* how the call ended for the caller
    loop,             \* "free": the event loop can run a task; "blocked": its
                      \* thread sits in a synchronous call
    otherSteps,       \* steps another task of the same event loop has taken
    probe             \* last direct application of a builder function

vars == <<config_api_key, provider_data, request, pc, params, calls,
          stream_state, emitted, handed, events, outcome, loop, otherSteps,
          probe>>

callVars == <<config_api_key, provider_data, request, pc, params, calls,
              stream_state, emitted, handed, events, outcome, loop, otherSteps>>

-----------------------------------------------------------------------------
(* Bounds of the model. *)

\* content segments in one request (over all its messages)
MaxSegs == 2
\* prompt pieces concatenated into one rendered prompt
MaxPieces == 2
\* chunks a provider stream produces before it ends
MaxChunks == 2
\* steps the other task of the event loop takes
MaxOtherSteps == 1

-----------------------------------------------------------------------------
(* Values. *)

None == <<>>
Some(v) == <<v>>

EmptyDict == [k \in {} |-> 0]

\* {**a, **b}: later keys win
Merge(a, b) ==
    [k \in (DOMAIN a) \cup (DOMAIN b) |-> IF k \in DOMAIN b THEN b[k] ELSE a[k]]

\* "<|begin_of_text|>"
BOS ==
    << "<", "|", "b", "e", "g", "i", "n", "_", "o", "f", "_", "t", "e", "x",
       "t", "|", ">" >>

\* str.startswith
StartsWith(s, prefix) ==
    /\ Len(s) >= Len(prefix)
    /\ SubSeq(s, 1, Len(prefix)) = prefix

DefaultMaxTokens == 512

ErrMissingCredential ==
    "ValueError: Pass Fireworks API Key in the header X-LlamaStack-ProviderData"
ErrUnknownFormat == "ValueError: Unknown response format"
ErrMedia ==
    "AssertionError: Fireworks does not support media for Completion requests"
ErrUnknownModel == "UnknownModelError"
ErrProvider == "ProviderError"

-----------------------------------------------------------------------------
(* Inputs. *)

Segs == {"text", "image"}

RECURSIVE SeqsOfLen(_, _)
SeqsOfLen(S, n) ==
    IF n = 0 THEN {<<>>}
    ELSE {Append(s, x) : s \in SeqsOfLen(S, n - 1), x \in S}

SeqsUpTo(S, n) == UNION {SeqsOfLen(S, k) : k \in 0..n}

\* InterleavedTextMedia: a non-empty list of text / image segments
Contents(n) == SeqsUpTo(Segs, n) \ {<<>>}

\* List[Message] holding at most n segments in all
RECURSIVE MessageLists(_)
MessageLists(n) ==
    IF n = 0 THEN {<<>>}
    ELSE {<<>>} \cup
         {<<[role |-> "user", content |-> c]>> \o rest :
              c \in Contents(1), rest \in MessageLists(n - 1)} \cup
         UNION {{<<[role |-> "user", content |-> c]>> \o rest :
                     rest \in MessageLists(n - Len(c))} :
                c \in Contents(n) \ Contents(1)}

Pieces == {BOS, <<" ">>, <<"H", "i">>}

RECURSIVE Concat(_)
Concat(ps) == IF ps = <<>> THEN <<>> ELSE Head(ps) \o Concat(Tail(ps))

\* the strings a prompt renderer may return
Prompts == {Concat(ps) : ps \in SeqsUpTo(Pieces, MaxPieces)}

Schemas == {"S1", "S2"}
Grammars == {"G1", "G2"}

\* Optional[ResponseFormat]
Formats ==
    {None}
        \cup {Some([type |-> "json_schema", json_schema |-> s]) : s \in Schemas}
        \cup {Some([type |-> "grammar", bnf |-> g]) : g \in Grammars}
        \cup {Some([type |-> "regex"])}

\* Optional[SamplingParams]
Samplings ==
    {None} \cup
    {Some([max_tokens |-> m, temperature |-> t]) :
        m \in {None, Some(1), Some(DefaultMaxTokens), Some(1024)},
        t \in {None, Some(7)}}

ResolvedModel == "fireworks/llama-v3p1-8b-instruct"

CompletionRequests(samplings, formats) ==
    {[kind |-> "completion", model |-> ResolvedModel, content |-> c,
      sampling_params |-> sp, response_format |-> f, stream |-> st] :
        c \in Contents(MaxSegs), sp \in samplings, f \in formats,
        st \in BOOLEAN}

ChatRequests(samplings, formats) ==
    {[kind |-> "chat", model |-> ResolvedModel, messages |-> ms,
      sampling_params |-> sp, response_format |-> f, stream |-> st] :
        ms \in MessageLists(MaxSegs) \ {<<>>}, sp \in samplings,
        f \in formats, st \in BOOLEAN}

-----------------------------------------------------------------------------
(* Collaborators of the adapter that live outside fireworks.py. *)

\* prompt_adapter.request_has_media
request_has_media(req) ==
    IF req.kind = "chat"
    THEN \E i \in DOMAIN req.messages :
             \E j \in DOMAIN req.messages[i].content :
                 req.messages[i].content[j] = "image"
    ELSE \E j \in DOMAIN req.content : req.content[j] = "image"

\* prompt_adapter.convert_message_to_dict
convert_message_to_dict(m) ==
    [role |-> m.role,
     content |-> [j \in DOMAIN m.content |->
                     IF m.content[j] = "image"
                     THEN [type |-> "image_url"]
                     ELSE [type |-> "text"]]]

\* openai_compat.get_sampling_options: the settings the caller made explicit
get_sampling_options(sampling_params) ==
    IF sampling_params = None THEN EmptyDict
    ELSE LET sp == sampling_params[1]
             set == {k \in DOMAIN sp : sp[k] # None}
         IN [k \in set |-> sp[k][1]]

-----------------------------------------------------------------------------
(* FireworksInferenceAdapter._build_options *)

set_default_max_tokens_overwrite(options) ==
    Merge(options, [max_tokens |-> DefaultMaxTokens])

\* line 152: options.setdefault("max_tokens", 512)
set_default_max_tokens(options) ==
    Merge([max_tokens |-> DefaultMaxTokens], options)

response_format_option_schema_type(fmt) ==
    IF fmt = None THEN [ok |-> TRUE, option |-> EmptyDict]
    ELSE IF fmt[1].type = "json_schema"
    THEN [ok |-> TRUE,
          option |-> [response_format |->
              [type |-> "json_schema", schema |-> fmt[1].json_schema]]]
    ELSE IF fmt[1].type = "grammar"
    THEN [ok |-> TRUE,
          option |-> [response_format |->
              [type |-> "grammar", grammar |-> fmt[1].bnf]]]
    ELSE [ok |-> FALSE, error |-> ErrUnknownFormat]

\* lines 154-166: the response_format entry, if any
response_format_option(fmt) ==
    IF fmt = None THEN [ok |-> TRUE, option |-> EmptyDict]
    ELSE IF fmt[1].type = "json_schema"
    THEN [ok |-> TRUE,
          option |-> [response_format |->
              [type |-> "json_object", schema |-> fmt[1].json_schema]]]
    ELSE IF fmt[1].type = "grammar"
    THEN [ok |-> TRUE,
          option |-> [response_format |->
              [type |-> "grammar", grammar |-> fmt[1].bnf]]]
    ELSE [ok |-> FALSE, error |-> ErrUnknownFormat]

_build_options(sampling_params, fmt) ==
    LET options == set_default_max_tokens(get_sampling_options(sampling_params))
        rf == response_format_option(fmt)
    IN IF rf.ok
       THEN [ok |-> TRUE, options |-> Merge(options, rf.option)]
       ELSE [ok |-> FALSE, error |-> rf.error]

-----------------------------------------------------------------------------
(* FireworksInferenceAdapter._get_params *)

RECURSIVE strip_bos_all(_)
strip_bos_all(prompt) ==
    IF StartsWith(prompt, BOS)
    THEN strip_bos_all(SubSeq(prompt, Len(BOS) + 1, Len(prompt)))
    ELSE prompt

\* lines 251-253: drop one leading "<|begin_of_text|>"
strip_bos(prompt) ==
    IF StartsWith(prompt, BOS)
    THEN SubSeq(prompt, Len(BOS) + 1, Len(prompt))
    ELSE prompt

chat_input_dict_by_kind(req, rendered) ==
    [ok |-> TRUE, input_dict |-> [messages |->
        [i \in DOMAIN req.messages |-> convert_message_to_dict(req.messages[i])]]]

\* lines 235-243: the ChatCompletionRequest branch; rendered is what
\* chat_completion_request_to_prompt returns
chat_input_dict(req, rendered) ==
    IF request_has_media(req)
    THEN [ok |-> TRUE, input_dict |-> [messages |->
            [i \in DOMAIN req.messages |->
                convert_message_to_dict(req.messages[i])]]]
    ELSE [ok |-> TRUE, input_dict |-> [prompt |-> rendered]]

completion_input_dict_no_assert(req, rendered) ==
    [ok |-> TRUE, input_dict |-> [prompt |-> rendered]]

\* lines 244-248: the CompletionRequest branch; rendered is what
\* completion_request_to_prompt returns
completion_input_dict(req, rendered) ==
    IF request_has_media(req)
    THEN [ok |-> FALSE, error |-> ErrMedia]
    ELSE [ok |-> TRUE, input_dict |-> [prompt |-> rendered]]

_get_params(req, rendered) ==
    LET built == IF req.kind = "chat"
                 THEN chat_input_dict(req, rendered)
                 ELSE completion_input_dict(req, rendered)
    IN IF ~built.ok THEN built
       ELSE
         LET input_dict ==
                 IF "prompt" \in DOMAIN built.input_dict
                 THEN Merge(built.input_dict,
                            [prompt |-> strip_bos(built.input_dict.prompt)])
                 ELSE built.input_dict
             opts == _build_options(req.sampling_params, req.response_format)
         IN IF ~opts.ok THEN opts
            ELSE [ok |-> TRUE,
                  params |-> Merge(Merge(Merge([model |-> req.model], input_dict),
                                         [stream |-> req.stream]),
                                   opts.options)]

-----------------------------------------------------------------------------
(* The builder functions applied directly to every input of the bounded    *)
(* sets.                                                                   *)

\* the sampling parameters and response formats of whole requests
RequestSamplings ==
    {None, Some([max_tokens |-> Some(64), temperature |-> None]),
     Some([max_tokens |-> None, temperature |-> Some(7)])}
RequestFormats ==
    {None, Some([type |-> "json_schema", json_schema |-> "S1"]),
     Some([type |-> "grammar", bnf |-> "G1"]), Some([type |-> "regex"])}

NoProbe == [fn |-> "none", applied |-> FALSE]

BuildOptionsInputs ==
    {[fn |-> "_build_options", applied |-> FALSE, sampling_params |-> sp,
      fmt |-> fmt] : sp \in Samplings, fmt \in Formats}

GetParamsInputs ==
    {[fn |-> "_get_params", applied |-> FALSE, request |-> req,
      rendered |-> rendered] :
        req \in CompletionRequests(RequestSamplings, RequestFormats)
                   \cup ChatRequests(RequestSamplings, RequestFormats),
        rendered \in Prompts}

InitBuild ==
    /\ config_api_key = None
    /\ provider_data = None
    /\ request = None
    /\ pc = "idle"
    /\ params = EmptyDict
    /\ calls = <<>>
    /\ stream_state = "none"
    /\ emitted = <<>>
    /\ handed = <<>>
    /\ events = <<>>
    /\ outcome = "pending"
    /\ loop = "free"
    /\ otherSteps = 0
    /\ probe \in BuildOptionsInputs \cup GetParamsInputs

ApplyBuildOptions ==
    /\ probe.fn = "_build_options"
    /\ ~probe.applied
    /\ probe' = [fn |-> probe.fn, applied |-> TRUE,
                 sampling_params |-> probe.sampling_params, fmt |-> probe.fmt,
                 result |-> _build_options(probe.sampling_params, probe.fmt)]
    /\ UNCHANGED callVars

ApplyGetParams ==
    /\ probe.fn = "_get_params"
    /\ ~probe.applied
    /\ probe' = [fn |-> probe.fn, applied |-> TRUE,
                 request |-> probe.request, rendered |-> probe.rendered,
                 result |-> _get_params(probe.request, probe.rendered)]
    /\ UNCHANGED callVars

NextBuild == ApplyBuildOptions \/ ApplyGetParams

SpecBuild == InitBuild /\ [][NextBuild]_vars

-----------------------------------------------------------------------------
(* FireworksInferenceAdapter._get_client *)

get_client_prefers_ambient(api_key, pd) ==
    IF pd # None /\ pd[1].fireworks_api_key # ""
    THEN [ok |-> TRUE, api_key |-> pd[1].fireworks_api_key]
    ELSE IF api_key # None THEN [ok |-> TRUE, api_key |-> api_key[1]]
    ELSE [ok |-> FALSE, error |-> ErrMissingCredential]

_get_client(api_key, pd) ==
    IF api_key # None THEN [ok |-> TRUE, api_key |-> api_key[1]]
    ELSE IF pd = None \/ pd[1].fireworks_api_key = ""
    THEN [ok |-> FALSE, error |-> ErrMissingCredential]
    ELSE [ok |-> TRUE, api_key |-> pd[1].fireworks_api_key]

-----------------------------------------------------------------------------
(* The call dispatcher. *)

\* the Fireworks client methods the adapter calls
CompletionAcreate == "completion.acreate"
CompletionCreate == "completion.create"
PromptEndpoints == {CompletionAcreate, CompletionCreate}
ChatEndpoint == "chat.completions.acreate"

nonstream_chat_endpoint_always_chat(p) == ChatEndpoint

\* lines 204-207
nonstream_chat_endpoint(p) ==
    IF "messages" \in DOMAIN p THEN ChatEndpoint ELSE CompletionAcreate

\* lines 216-219
stream_chat_endpoint(p) ==
    IF "messages" \in DOMAIN p THEN ChatEndpoint ELSE CompletionCreate

\* What the provider stream does when asked for its next chunk.
StreamEvents(n) ==
    {[type |-> "chunk", chunk |-> n + 1], [type |-> "end"],
     [type |-> "error", error |-> ErrProvider]}

to_async_generator_swallow(ev) ==
    IF ev.type = "chunk" THEN [op |-> "yield", chunk |-> ev.chunk]
    ELSE [op |-> "stop"]

to_async_generator_stale(ev) ==
    IF ev.type = "chunk" THEN [op |-> "yield", chunk |-> 1]
    ELSE IF ev.type = "end" THEN [op |-> "stop"]
    ELSE [op |-> "raise", error |-> ev.error]

\* lines 141-142: "for chunk in stream: yield chunk" of _stream_completion
completion_to_async_generator(ev) ==
    IF ev.type = "chunk" THEN [op |-> "yield", chunk |-> ev.chunk]
    ELSE IF ev.type = "end" THEN [op |-> "stop"]
    ELSE [op |-> "raise", error |-> ev.error]

\* lines 220-221: the same loop of _stream_chat_completion
chat_to_async_generator(ev) ==
    IF ev.type = "chunk" THEN [op |-> "yield", chunk |-> ev.chunk]
    ELSE IF ev.type = "end" THEN [op |-> "stop"]
    ELSE [op |-> "raise", error |-> ev.error]

\* openai_compat.process_*_response: a raw response or chunk, normalized
Normalize(raw) == [event |-> "normalized", raw |-> raw]

\* model_store.get_model
KnownModels == {"Llama3.1-8B-Instruct"}
ModelIds == KnownModels \cup {"no-such-model"}

StaticKeys == {None, Some("sk-static")}
AmbientData ==
    {None, Some([fireworks_api_key |-> ""]),
     Some([fireworks_api_key |-> "sk-caller"])}

MainPrompts == {<<"H", "i">>, BOS \o <<"H", "i">>}

Init ==
    /\ config_api_key \in StaticKeys
    /\ provider_data = None
    /\ request = None
    /\ pc = "idle"
    /\ params = EmptyDict
    /\ calls = <<>>
    /\ stream_state = "none"
    /\ emitted = <<>>
    /\ handed = <<>>
    /\ events = <<>>
    /\ outcome = "pending"
    /\ loop = "free"
    /\ otherSteps = 0
    /\ probe = NoProbe

\* the call raises e to the caller
Raise(e) ==
    /\ outcome' = e
    /\ pc' = "done"
    /\ loop' = "free"

\* built is what _get_params returned or raised; then _get_client, then the
\* provider call at the endpoint
BuildAndIssue(req, built, endpoint, afterIssue, loopAfter) ==
    IF ~built.ok
    THEN /\ Raise(built.error)
         /\ UNCHANGED <<params, calls, stream_state>>
    ELSE LET client == _get_client(config_api_key, provider_data) IN
         /\ params' = built.params
         /\ IF ~client.ok
            THEN /\ Raise(client.error)
                 /\ UNCHANGED <<calls, stream_state>>
            ELSE /\ calls' = Append(calls,
                        [endpoint |-> endpoint,
                         api_key |-> client.api_key,
                         params |-> built.params])
                 /\ pc' = afterIssue
                 /\ loop' = loopAfter
                 /\ stream_state' = IF req.stream THEN "open" ELSE "none"
                 /\ UNCHANGED outcome

\* lines 105-126 (and 128-132 when stream is false)
completion ==
    /\ pc = "idle"
    /\ \E model_id \in ModelIds, pd \in AmbientData, rendered \in MainPrompts,
          req \in CompletionRequests(RequestSamplings, RequestFormats) :
         /\ provider_data' = pd
         /\ IF model_id \notin KnownModels
            THEN /\ Raise(ErrUnknownModel)
                 /\ UNCHANGED <<request, params, calls, stream_state>>
            ELSE /\ request' = Some(req)
                 /\ IF req.stream
                    THEN /\ pc' = "generator"
                         /\ UNCHANGED <<params, calls, stream_state, outcome,
                                        loop>>
                    ELSE BuildAndIssue(req, _get_params(req, rendered),
                                       CompletionAcreate, "await_response",
                                       "free")
    /\ UNCHANGED <<config_api_key, emitted, handed, events, otherSteps, probe>>

\* lines 170-198 (and 200-207 when stream is false)
chat_completion ==
    /\ pc = "idle"
    /\ \E model_id \in ModelIds, pd \in AmbientData, rendered \in MainPrompts,
          req \in ChatRequests(RequestSamplings, RequestFormats) :
         /\ provider_data' = pd
         /\ IF model_id \notin KnownModels
            THEN /\ Raise(ErrUnknownModel)
                 /\ UNCHANGED <<request, params, calls, stream_state>>
            ELSE /\ request' = Some(req)
                 /\ IF req.stream
                    THEN /\ pc' = "generator"
                         /\ UNCHANGED <<params, calls, stream_state, outcome,
                                        loop>>
                    ELSE LET built == _get_params(req, rendered) IN
                         BuildAndIssue(req, built,
                             IF built.ok
                             THEN nonstream_chat_endpoint(built.params)
                             ELSE "",
                             "await_response", "free")
    /\ UNCHANGED <<config_api_key, emitted, handed, events, otherSteps, probe>>

\* lines 133 and 208: the awaited call returns and its response is normalized
nonstream_response ==
    /\ pc = "await_response"
    /\ events' = Append(events, Normalize("response"))
    /\ outcome' = "result"
    /\ pc' = "done"
    /\ UNCHANGED <<config_api_key, provider_data, request, params, calls,
                   stream_state, emitted, handed, loop, otherSteps, probe>>

\* lines 132, 205, 207: the awaited call raises
nonstream_failure ==
    /\ pc = "await_response"
    /\ Raise(ErrProvider)
    /\ UNCHANGED <<config_api_key, provider_data, request, params, calls,
                   stream_state, emitted, handed, events, otherSteps, probe>>

\* lines 135-140: the caller's first iteration step runs _stream_completion up
\* to the synchronous read of the first chunk
stream_completion_start ==
    /\ pc = "generator"
    /\ request[1].kind = "completion"
    /\ \E rendered \in MainPrompts :
         BuildAndIssue(request[1], _get_params(request[1], rendered),
                       CompletionCreate, "next_chunk", "blocked")
    /\ UNCHANGED <<config_api_key, provider_data, request, emitted, handed,
                   events, otherSteps, probe>>

\* lines 210-219: the same for _stream_chat_completion; the chat endpoint's
\* stream handle is awaited, the prompt endpoint's is read synchronously
stream_chat_completion_start ==
    /\ pc = "generator"
    /\ request[1].kind = "chat"
    /\ \E rendered \in MainPrompts :
         LET built == _get_params(request[1], rendered)
             endpoint == IF built.ok THEN stream_chat_endpoint(built.params)
                         ELSE ""
             awaited == endpoint = ChatEndpoint
         IN BuildAndIssue(request[1], built, endpoint,
                          IF awaited THEN "await_stream" ELSE "next_chunk",
                          IF awaited THEN "free" ELSE "blocked")
    /\ UNCHANGED <<config_api_key, provider_data, request, emitted, handed,
                   events, otherSteps, probe>>

\* line 217 returns: the stream handle is there, line 220 starts reading it
stream_handle_ready ==
    /\ pc = "await_stream"
    /\ pc' = "next_chunk"
    /\ loop' = "blocked"
    /\ UNCHANGED <<config_api_key, provider_data, request, params, calls,
                   stream_state, emitted, handed, events, outcome, otherSteps,
                   probe>>

\* line 217 raises
stream_handle_failure ==
    /\ pc = "await_stream"
    /\ stream_state' = "failed"
    /\ Raise(ErrProvider)
    /\ UNCHANGED <<config_api_key, provider_data, request, params, calls,
                   emitted, handed, events, otherSteps, probe>>

\* lines 141-146 and 220-227: the provider stream answers the pending read;
\* the generator yields the chunk, stops or raises, and the normalizer passes
\* that on to the caller
stream_read ==
    /\ pc = "next_chunk"
    /\ \E ev \in StreamEvents(Len(emitted)) :
         LET step == IF request[1].kind = "chat"
                     THEN chat_to_async_generator(ev)
                     ELSE completion_to_async_generator(ev)
         IN /\ ev.type = "chunk" => Len(emitted) < MaxChunks
            /\ emitted' = IF ev.type = "chunk"
                          THEN Append(emitted, ev.chunk) ELSE emitted
            /\ stream_state' = IF ev.type = "chunk" THEN "open"
                               ELSE IF ev.type = "end" THEN "ended"
                               ELSE "failed"
            /\ IF step.op = "yield"
               THEN /\ handed' = Append(handed, step.chunk)
                    /\ events' = Append(events, Normalize(step.chunk))
                    /\ pc' = "yielded"
                    /\ loop' = "free"
                    /\ UNCHANGED outcome
               ELSE IF step.op = "stop"
               THEN /\ outcome' = "end_of_stream"
                    /\ pc' = "done"
                    /\ loop' = "free"
                    /\ UNCHANGED <<handed, events>>
               ELSE /\ Raise(step.error)
                    /\ UNCHANGED <<handed, events>>
    /\ UNCHANGED <<config_api_key, provider_data, request, params, calls,
                   otherSteps, probe>>

\* lines 145-146 and 224-227: the caller asks for the next event, and the
\* generator goes back to its synchronous read
stream_next ==
    /\ pc = "yielded"
    /\ pc' = "next_chunk"
    /\ loop' = "blocked"
    /\ UNCHANGED <<config_api_key, provider_data, request, params, calls,
                   stream_state, emitted, handed, events, outcome, otherSteps,
                   probe>>

\* another task of the same event loop runs one step; the loop runs a task
\* only when its thread is not inside a synchronous call
other_task_step ==
    /\ loop = "free"
    /\ otherSteps < MaxOtherSteps
    /\ otherSteps' = otherSteps + 1
    /\ UNCHANGED <<config_api_key, provider_data, request, pc, params, calls,
                   stream_state, emitted, handed, events, outcome, loop, probe>>

Next ==
    \/ completion
    \/ chat_completion
    \/ nonstream_response
    \/ nonstream_failure
    \/ stream_completion_start
    \/ stream_chat_completion_start
    \/ stream_handle_ready
    \/ stream_handle_failure
    \/ stream_read
    \/ stream_next
    \/ other_task_step

Spec == Init /\ [][Next]_vars

-----------------------------------------------------------------------------
(* Properties. *)

\* some content segment of the request is an image
AnyMediaSegment(req) ==
    IF req.kind = "chat"
    THEN \E m \in {req.messages[i] : i \in DOMAIN req.messages} :
             "image" \in {m.content[j] : j \in DOMAIN m.content}
    ELSE "image" \in {req.content[j] : j \in DOMAIN req.content}

GetParamsApplied == probe.fn = "_get_params" /\ probe.applied
BuildOptionsApplied == probe.fn = "_build_options" /\ probe.applied

\* C1: the payload _get_params builds for a chat request holds exactly one of
\* "prompt" and "messages": "prompt" alone when no message holds a media
\* segment, "messages" alone when some message does.
C1_ChatPayloadShape ==
    (GetParamsApplied /\ probe.request.kind = "chat" /\ probe.result.ok) =>
        LET keys == DOMAIN probe.result.params IN
        IF AnyMediaSegment(probe.request)
        THEN "messages" \in keys /\ "prompt" \notin keys
        ELSE "prompt" \in keys /\ "messages" \notin keys

C1_Witness ==
    /\ GetParamsApplied
    /\ probe.request.kind = "chat"
    /\ Len(probe.request.messages) > 1
    /\ AnyMediaSegment(probe.request)
    /\ probe.result.ok
    /\ "messages" \in DOMAIN probe.result.params

\* C2: a payload built for a completion request holds "prompt"; when a content
\* segment is media, nothing is built, no provider call is issued (streaming or
\* not) and the call ends with the unsupported-media error.
C2_CompletionPromptOrMediaError ==
    (request # None /\ request[1].kind = "completion") =>
        /\ (DOMAIN params # {}) =>
               ("prompt" \in DOMAIN params /\ "messages" \notin DOMAIN params)
        /\ AnyMediaSegment(request[1]) =>
               /\ DOMAIN params = {}
               /\ calls = <<>>
               /\ outcome \in {"pending", ErrMedia}
               /\ (pc = "done" => outcome = ErrMedia)

C2_Witness ==
    /\ request # None
    /\ request[1].kind = "completion"
    /\ request[1].stream
    /\ AnyMediaSegment(request[1])
    /\ pc = "done"
    /\ outcome = ErrMedia
    /\ calls = <<>>

\* C3: for a chat request, streaming or not, the call goes to the chat endpoint
\* exactly when the payload holds "messages" and to the prompt endpoint
\* otherwise; a media-free chat request goes to the prompt endpoint.
C3_ChatRouting ==
    (request # None /\ request[1].kind = "chat") =>
        \A i \in DOMAIN calls :
            LET c == calls[i] IN
            /\ c.params = params
            /\ c.endpoint \in PromptEndpoints \cup {ChatEndpoint}
            /\ (c.endpoint = ChatEndpoint) <=> ("messages" \in DOMAIN c.params)
            /\ (c.endpoint = ChatEndpoint) => ("prompt" \notin DOMAIN c.params)
            /\ (c.endpoint \in PromptEndpoints) =>
                   ("messages" \notin DOMAIN c.params /\ "prompt" \in DOMAIN c.params)
            /\ ~AnyMediaSegment(request[1]) => c.endpoint \in PromptEndpoints

C3_Witness ==
    /\ request # None
    /\ request[1].kind = "chat"
    /\ ~request[1].stream
    /\ ~AnyMediaSegment(request[1])
    /\ Len(calls) = 1
    /\ calls[1].endpoint = "completion.acreate"
    /\ "prompt" \in DOMAIN calls[1].params

\* C4: the prompt in the payload is the rendered prompt without one leading
\* "<|begin_of_text|>" when the rendered prompt starts with it, and the
\* rendered prompt itself otherwise; the marker alone becomes the empty string
\* and of two leading markers the second stays.
C4_StripOneLeadingMarker ==
    (GetParamsApplied /\ probe.result.ok
        /\ "prompt" \in DOMAIN probe.result.params) =>
        LET sent == probe.result.params.prompt
            rendered == probe.rendered
        IN /\ StartsWith(rendered, BOS) => rendered = BOS \o sent
           /\ ~StartsWith(rendered, BOS) => sent = rendered
           /\ rendered = BOS => sent = <<>>
           /\ rendered = BOS \o BOS => sent = BOS

C4_Witness ==
    /\ GetParamsApplied
    /\ probe.result.ok
    /\ probe.rendered = BOS \o BOS
    /\ probe.result.params.prompt = BOS

\* C5: the built options, and the payload, hold max_tokens: 512 when the
\* sampling parameters make no explicit max-token setting, the caller's value
\* when they do.
ExpectedMaxTokens(sp) ==
    IF sp # None /\ sp[1].max_tokens # None
    THEN sp[1].max_tokens[1]
    ELSE 512

C5_MaxTokens ==
    /\ (BuildOptionsApplied /\ probe.result.ok) =>
           /\ "max_tokens" \in DOMAIN probe.result.options
           /\ probe.result.options.max_tokens =
                  ExpectedMaxTokens(probe.sampling_params)
    /\ (GetParamsApplied /\ probe.result.ok) =>
           /\ "max_tokens" \in DOMAIN probe.result.params
           /\ probe.result.params.max_tokens =
                  ExpectedMaxTokens(probe.request.sampling_params)

C5_Witness ==
    /\ BuildOptionsApplied
    /\ probe.result.ok
    /\ probe.sampling_params # None
    /\ probe.sampling_params[1].max_tokens = Some(1024)
    /\ probe.result.options.max_tokens = 1024

\* C6: json_schema(S) gives response_format {"type": "json_object",
\* "schema": S}, grammar(G) gives {"type": "grammar", "grammar": G}, no
\* response format gives no response_format key, and any other tag fails with
\* the unknown-response-format error and returns no options.
C6_ResponseFormat ==
    BuildOptionsApplied =>
        LET fmt == probe.fmt
            r == probe.result
        IN IF fmt = None
           THEN r.ok /\ "response_format" \notin DOMAIN r.options
           ELSE IF fmt[1].type = "json_schema"
           THEN /\ r.ok
                /\ "response_format" \in DOMAIN r.options
                /\ r.options.response_format =
                       [type |-> "json_object", schema |-> fmt[1].json_schema]
           ELSE IF fmt[1].type = "grammar"
           THEN /\ r.ok
                /\ "response_format" \in DOMAIN r.options
                /\ r.options.response_format =
                       [type |-> "grammar", grammar |-> fmt[1].bnf]
           ELSE /\ ~r.ok
                /\ r.error = ErrUnknownFormat
                /\ "options" \notin DOMAIN r

C6_Witness ==
    /\ BuildOptionsApplied
    /\ probe.fmt = Some([type |-> "json_schema", json_schema |-> "S2"])
    /\ probe.result.ok
    /\ probe.result.options.response_format.schema = "S2"

\* the ambient request context supplies no credential
NoAmbientCredential ==
    provider_data = None \/ provider_data[1].fireworks_api_key = ""

\* C7 as stated: with no static key and no ambient credential, every
\* completion request, once run, has failed with the missing-credential error
\* and no provider call was attempted; a configured static key is the key used.
C7_Original ==
    (request # None /\ request[1].kind = "completion") =>
        /\ (config_api_key = None /\ NoAmbientCredential) =>
               /\ calls = <<>>
               /\ (pc = "done" => outcome = ErrMissingCredential)
        /\ config_api_key # None =>
               \A i \in DOMAIN calls : calls[i].api_key = config_api_key[1]

\* C7 as amended: the missing-credential error is the one raised when the
\* payload of the request was built; a request whose payload cannot be built
\* fails with the builder's error; in both cases no provider call is attempted.
C7_MissingCredential ==
    (request # None /\ request[1].kind = "completion") =>
        /\ (config_api_key = None /\ NoAmbientCredential) =>
               /\ calls = <<>>
               /\ (pc = "done" =>
                       IF DOMAIN params # {}
                       THEN outcome = ErrMissingCredential
                       ELSE outcome \in {ErrMedia, ErrUnknownFormat})
        /\ config_api_key # None =>
               /\ outcome # ErrMissingCredential
               /\ \A i \in DOMAIN calls : calls[i].api_key = config_api_key[1]

C7_Witness ==
    /\ request # None
    /\ request[1].kind = "completion"
    /\ request[1].stream
    /\ config_api_key = None
    /\ provider_data = Some([fireworks_api_key |-> ""])
    /\ pc = "done"
    /\ DOMAIN params # {}
    /\ outcome = ErrMissingCredential
    /\ calls = <<>>

IsStreaming == request # None /\ request[1].stream

\* C8: on every streaming path the chunks handed to the normalizer are the
\* provider's chunks in arrival order, none dropped, duplicated or reordered;
\* the caller gets one event per chunk, and its sequence ends normally exactly
\* when the provider stream has ended.
C8_InOrderForwarding ==
    IsStreaming =>
        /\ handed = emitted
        /\ events = [i \in DOMAIN emitted |-> Normalize(emitted[i])]
        /\ (outcome = "end_of_stream") <=> (stream_state = "ended")
        /\ stream_state = "ended" => pc = "done"

C8_Witness ==
    /\ IsStreaming
    /\ request[1].kind = "chat"
    /\ Len(calls) = 1
    /\ calls[1].endpoint = ChatEndpoint
    /\ Len(emitted) >= 2
    /\ handed = emitted
    /\ outcome = "end_of_stream"

\* C9: when the provider fails on a later chunk of a started stream, the
\* caller's sequence ends with that error, never with a normal end of stream.
C9_MidStreamFailureRaises ==
    (IsStreaming /\ stream_state = "failed") =>
        /\ pc = "done"
        /\ outcome = ErrProvider

C9_Witness ==
    /\ IsStreaming
    /\ request[1].kind = "chat"
    /\ stream_state = "failed"
    /\ Len(handed) >= 1
    /\ Len(events) >= 1
    /\ outcome = ErrProvider

\* C10: while a streaming completion waits for its next chunk, another task
\* of the same event loop can take a step.
C10_LoopNotBlocked ==
    (IsStreaming /\ request[1].kind = "completion" /\ pc = "next_chunk"
        /\ otherSteps < MaxOtherSteps) =>
        ENABLED other_task_step

====
